---- MODULE Spec2Model ----
(***************************************************************************)
(* Model of pipeline/python/generate_test_fits.py: the MinieSASS test data *)
(* generator.  The script imports its packages, then main() simulates one  *)
(* event list per configured observation, writes one FITS table per        *)
(* observation and finally one plain-text source catalog.                  *)
(*                                                                         *)
(* Numbers are fixed point.  Sky angles are multiples of 1/SkyDen degree,  *)
(* detector coordinates multiples of 1/PixDen pixel, energies multiples of *)
(* 1/EnergyDen keV, arrival times multiples of 1/TimeDen second and fluxes *)
(* multiples of 1/FluxDen count per second.  The denominators are chosen   *)
(* so that the linear sky <-> pixel mapping of the script is exact.        *)
(***************************************************************************)
EXTENDS Integers, Sequences, FiniteSets, TLC

----------------------------------------------------------------------------
(* Bounds of the model *)

MaxObs == 2          \* observations in one run of main
MaxSources == 2      \* sources kept from each configured source list
RawMax == 2          \* a raw pseudo-random value is in 0..RawMax
StreamPeriod == 4    \* period of the modelled pseudo-random stream

----------------------------------------------------------------------------
(* Units *)

SkyDen == 900000
PixDen == 1025
EnergyDen == 2000
TimeDen == 1000
FluxDen == 100000

Deg4(n) == n * (SkyDen \div 10000)      \* n in 1e-4 degree
Flux4(n) == n * (FluxDen \div 10000)    \* n in 1e-4 count/s

Min(a, b) == IF a < b THEN a ELSE b
Max(a, b) == IF a > b THEN a ELSE b
Abs(a) == IF a < 0 THEN -a ELSE a

(* floor division that is also right for a negative numerator *)
FloorDiv(a, b) == IF a >= 0 THEN a \div b ELSE -((-a + b - 1) \div b)

(* np.round: nearest integer to a/b (b > 0), a tie goes to the even one *)
RoundHalfEven(a, b) ==
    LET q == FloorDiv(a, b)
        r == a - q * b
    IN  IF 2 * r < b THEN q
        ELSE IF 2 * r > b THEN q + 1
        ELSE IF q % 2 = 0 THEN q ELSE q + 1

(* np.clip *)
Clip(v, lo, hi) == IF v < lo THEN lo ELSE IF v > hi THEN hi ELSE v

----------------------------------------------------------------------------
(* XRayEventSimulator.__init__ : the instrument constants *)

detector_size == 384
pixel_scale_num == 41            \* pixel_scale = 4.1 arcsec per pixel
pixel_scale_den == 10
exposure_time == 1000            \* seconds
energy_gain == EnergyDen \div 200        \* 0.005 keV per channel
energy_offset == EnergyDen \div 5        \* 0.2 keV
energy_lo == EnergyDen \div 5            \* energy_range[0] = 0.2 keV
energy_hi == 10 * EnergyDen              \* energy_range[1] = 10.0 keV
background_rate == FluxDen \div 10000    \* 1e-4 count/s/pixel
PiMax == 4095                    \* 12-bit ADC
FrameTime == 2600                \* 2.6 s frame time, in 1/TimeDen s
DetCenter == 192

RECURSIVE GCD(_, _)
GCD(a, b) == IF b = 0 THEN a ELSE GCD(b, a % b)

(* pixels per degree, 3600 / pixel_scale, as a reduced fraction of the     *)
(* units: (1/PixDen pixel) per (1/SkyDen degree)                           *)
PixPerSkyNum == 3600 * pixel_scale_den * PixDen
PixPerSkyDen == pixel_scale_num * SkyDen
PixPerSkyGcd == GCD(PixPerSkyNum, PixPerSkyDen)

(* (ra - ra_center) * 3600 / pixel_scale, in 1/PixDen pixel *)
SkyToPix(d) ==
    (d * (PixPerSkyNum \div PixPerSkyGcd)) \div (PixPerSkyDen \div PixPerSkyGcd)

(* (x - 192) * pixel_scale / 3600, in 1/SkyDen degree *)
PixToSky(d) ==
    (d * (PixPerSkyDen \div PixPerSkyGcd)) \div (PixPerSkyNum \div PixPerSkyGcd)

----------------------------------------------------------------------------
(* The pseudo-random generator.                                            *)
(*                                                                         *)
(* np.random is a deterministic generator: after seed(42) the n-th value   *)
(* it yields is a fixed function of n.  That function is unknown to the    *)
(* model, so it is chosen freely, one value at a time, the first time a    *)
(* position is drawn, and remembered in the variable stream: a later draw  *)
(* of the same position after a re-seed yields the remembered value.  The  *)
(* stream repeats after StreamPeriod values.                               *)

Raw == 0..RawMax

(* the raw value of draw number p (p >= 1) after seeding *)
RawAt(s, p) == s[((p - 1) % StreamPeriod) + 1]

(* the known stream grown, in every possible way, just enough to draw the  *)
(* need values after position pos                                          *)
GrowTo(s, pos, need) ==
    LET k == Max(Len(s), Min(StreamPeriod, pos + need)) - Len(s)
    IN  { s \o ext : ext \in [1..k -> Raw] }

(* np.random.poisson(lam): any count when lam > 0, and 0 when lam = 0 *)
PoissonDraw(lam, r) == IF lam = 0 THEN 0 ELSE r

(* np.random.normal(mu, sigma): mu plus a whole number of sigmas *)
NormalDraw(mu, sigma, r) == mu + sigma * (r - 1)

(* np.random.uniform(lo, hi): a value of the half-open interval [lo, hi) *)
UniformDraw(lo, hi, r) == lo + ((hi - lo) * r) \div (RawMax + 1)

(* np.random.exponential(scale): a value >= 0, unbounded above *)
ExponentialDraw(scale, r) == scale * r * r * r

(* np.random.choice(n, p=...): one of 0..n-1 *)
ChoiceDraw(n, r) == r % n

----------------------------------------------------------------------------
(* create_test_observations: the configured observations.  Each source is  *)
(* <<ra, dec, flux>>.  The model keeps the first MaxSources sources of an  *)
(* observation.                                                            *)

Prefix(s, n) == SubSeq(s, 1, Min(n, Len(s)))

create_test_observations ==
    << [ obs_id |-> "TEST001",
         ra_center |-> Deg4(300000), dec_center |-> Deg4(100000),
         sources |-> Prefix(<< <<Deg4(300500), Deg4(100300), Flux4(1500)>>,
                               <<Deg4(299500), Deg4(100800), Flux4(800)>>,
                               <<Deg4(300800), Deg4(99200), Flux4(400)>>,
                               <<Deg4(299200), Deg4(99500), Flux4(250)>>,
                               <<Deg4(300200), Deg4(101500), Flux4(2000)>> >>,
                            MaxSources) ],
       [ obs_id |-> "TEST002",
         ra_center |-> Deg4(450000), dec_center |-> Deg4(-50000),
         sources |-> Prefix(<< <<Deg4(450300), Deg4(-49700), Flux4(1200)>>,
                               <<Deg4(449800), Deg4(-50500), Flux4(600)>>,
                               <<Deg4(451200), Deg4(-48800), Flux4(1800)>> >>,
                            MaxSources) ] >>

(* The observation lists a run is checked on: 1..MaxObs observations, each *)
(* with the field (center and sources) of a configured observation and the *)
(* obs_id of its position, so that obs_ids are distinct as configured.     *)
(* The configured list is one of them.                                     *)
ObsIds == <<"TEST001", "TEST002", "TEST003", "TEST004">>

Relabel(cfg, id) ==
    [ obs_id |-> id, ra_center |-> cfg.ra_center,
      dec_center |-> cfg.dec_center, sources |-> cfg.sources ]

ObsListsOfLen(len) ==
    { [n \in 1..len |-> Relabel(create_test_observations[f[n]], ObsIds[n])] :
        f \in [1..len -> 1..Len(create_test_observations)] }

ObsLists == UNION { ObsListsOfLen(len) : len \in 1..MaxObs }

----------------------------------------------------------------------------
(* State *)

VARIABLES
    missing,          \* the third-party packages that are not installed
    pc,               \* position of the script
    stdout,           \* what print() has written, one tuple per line
    stderr,           \* uncaught exceptions reported by the interpreter
    exit_status,      \* exit status of the process, NotExited while it runs
    dirs,             \* directories that exist
    files,            \* FITS files on disk: file name -> content
    catalog,          \* lines of the catalog file, NoFile when it is absent
    clock,            \* number of datetime.now() calls answered
    observations,     \* main: observations
    obs_index,        \* main: 1-based index of the observation of the for loop
    generated_files,  \* main: generated_files
    simulator,        \* main: the current XRayEventSimulator's obs_id
    rngPos,           \* values drawn from np.random since it was seeded
    stream,           \* the known values of the seeded stream
    src_index,        \* create_simple_events: sources already simulated
    all_arrays,       \* create_simple_events: the seven all_* lists
    total_counts,     \* create_simple_events: total_counts of each source
    poisson_lams,     \* create_simple_events: argument of each source's poisson()
    bg_counts,        \* create_simple_events: bg_counts
    events,           \* the events dictionary
    fits_log,         \* names given to hdul.writeto, in call order
    runs              \* per observation generated: its inputs and its events

vars == << missing, pc, stdout, stderr, exit_status, dirs, files, catalog,
           clock, observations, obs_index, generated_files, simulator, rngPos,
           stream, src_index, all_arrays, total_counts, poisson_lams,
           bg_counts, events, fits_log, runs >>

Packages == {"numpy", "matplotlib", "astropy"}
NotExited == -1
NoFile == << <<"no such file">> >>
NoCount == -1

EmptyArrays ==
    [ det_x |-> <<>>, det_y |-> <<>>, time |-> <<>>, energy |-> <<>>,
      ra |-> <<>>, dec |-> <<>>, source_id |-> <<>> ]

ArrayNames == DOMAIN EmptyArrays

(* an events dictionary without the keys add_realistic_columns adds has    *)
(* them as empty columns here                                              *)
WithColumns(ev, pi, grade, status, frame) ==
    [ det_x |-> ev.det_x, det_y |-> ev.det_y, time |-> ev.time,
      energy |-> ev.energy, ra |-> ev.ra, dec |-> ev.dec,
      source_id |-> ev.source_id,
      pi |-> pi, grade |-> grade, status |-> status, frame |-> frame ]

NoEvents == WithColumns(EmptyArrays, <<>>, <<>>, <<>>, <<>>)

Init ==
    /\ missing \in SUBSET Packages
    /\ pc = "import_numpy"
    /\ stdout = <<>>
    /\ stderr = <<>>
    /\ exit_status = NotExited
    /\ dirs = {}
    /\ files = <<>>
    /\ catalog = NoFile
    /\ clock = 0
    /\ observations \in ObsLists
    /\ obs_index = 0
    /\ generated_files = <<>>
    /\ simulator = ""
    /\ rngPos = 0
    /\ stream = <<>>
    /\ src_index = 0
    /\ all_arrays = EmptyArrays
    /\ total_counts = <<>>
    /\ poisson_lams = <<>>
    /\ bg_counts = NoCount
    /\ events = NoEvents
    /\ fits_log = <<>>
    /\ runs = <<>>

----------------------------------------------------------------------------
(* Module level: the imports *)

(* import numpy as np, outside the try block: an ImportError is uncaught *)
ImportNumpy ==
    /\ pc = "import_numpy"
    /\ IF "numpy" \in missing
       THEN /\ stderr' = Append(stderr, <<"Traceback", "ModuleNotFoundError", "numpy">>)
            /\ exit_status' = 1
            /\ pc' = "crashed"
       ELSE /\ pc' = "import_try"
            /\ UNCHANGED << stderr, exit_status >>
    /\ UNCHANGED << missing, stdout, dirs, files, catalog, clock, observations,
                    obs_index, generated_files, simulator, rngPos, stream,
                    src_index, all_arrays, total_counts, poisson_lams,
                    bg_counts, events, fits_log, runs >>

(* the packages imported inside the try block *)
GuardedPackages == {"matplotlib", "astropy"}

(* an except branch that prints the message and goes on instead of exit(1) *)
ImportGuardedNoExit ==
    /\ pc = "import_try"
    /\ stdout' = IF missing \cap GuardedPackages # {}
                 THEN stdout \o << <<"Missing required packages">>,
                                   <<"Install with: pip install astropy matplotlib">> >>
                 ELSE stdout
    /\ pc' = "main"
    /\ UNCHANGED << missing, stderr, exit_status, dirs, files, catalog, clock,
                    observations, obs_index, generated_files, simulator, rngPos,
                    stream, src_index, all_arrays, total_counts, poisson_lams,
                    bg_counts, events, fits_log, runs >>

(* try: import matplotlib.pyplot, astropy...  except ImportError: exit(1) *)
ImportGuarded ==
    /\ pc = "import_try"
    /\ IF missing \cap GuardedPackages # {}
       THEN /\ stdout' = stdout \o << <<"Missing required packages">>,
                                      <<"Install with: pip install astropy matplotlib">> >>
            /\ exit_status' = 1
            /\ pc' = "exited"
       ELSE /\ pc' = "main"
            /\ UNCHANGED << stdout, exit_status >>
    /\ UNCHANGED << missing, stderr, dirs, files, catalog, clock, observations,
                    obs_index, generated_files, simulator, rngPos, stream,
                    src_index, all_arrays, total_counts, poisson_lams,
                    bg_counts, events, fits_log, runs >>

----------------------------------------------------------------------------
(* main *)

output_dir == "data/simulated/raw"
catalog_dir == "data/simulated"

(* an uncaught exception: the interpreter prints the traceback and exits 1 *)
Raise(exc) ==
    /\ stderr' = Append(stderr, <<"Traceback", exc>>)
    /\ exit_status' = 1
    /\ pc' = "failed"

(* main up to the for loop: banner, os.makedirs(output_dir, exist_ok=True) *)
MainStart ==
    /\ pc = "main"
    /\ stdout' = stdout \o
          << <<"=== MinieSASS FITS Test Data Generator ===">>,
             <<"Generating eROSITA-style simulated X-ray observations...">> >>
    /\ \/ /\ dirs' = dirs \cup {"data", catalog_dir, output_dir}
          /\ pc' = "loop"
          /\ UNCHANGED << stderr, exit_status >>
       \/ /\ Raise("OSError")
          /\ UNCHANGED dirs
    /\ UNCHANGED << missing, files, catalog, clock, observations, obs_index,
                    generated_files, simulator, rngPos, stream, src_index,
                    all_arrays, total_counts, poisson_lams, bg_counts, events,
                    fits_log, runs >>

(* a constructor that leaves the generator where it is *)
NoReseed(pos) == pos

(* np.random.seed(42) in __init__: the stream restarts at its first value *)
Reseed(pos) == 0

(* for obs_config in observations: the next observation's banner, a new    *)
(* XRayEventSimulator, and create_simple_events up to its source loop      *)
StartObservation ==
    /\ pc = "loop"
    /\ obs_index < Len(observations)
    /\ obs_index' = obs_index + 1
    /\ simulator' = observations[obs_index + 1].obs_id
    /\ rngPos' = Reseed(rngPos)
    /\ src_index' = 0
    /\ all_arrays' = EmptyArrays
    /\ total_counts' = <<>>
    /\ poisson_lams' = <<>>
    /\ bg_counts' = NoCount
    /\ stdout' = stdout \o
          << <<"--- Generating Observation", observations[obs_index + 1].obs_id>>,
             <<"Field center", observations[obs_index + 1].ra_center,
                               observations[obs_index + 1].dec_center>>,
             <<"Sources:", Len(observations[obs_index + 1].sources)>>,
             <<"Simulating point sources", Len(observations[obs_index + 1].sources)>> >>
    /\ pc' = "sources"
    /\ UNCHANGED << missing, stderr, exit_status, dirs, files, catalog, clock,
                    observations, generated_files, stream, events, fits_log,
                    runs >>

----------------------------------------------------------------------------
(* XRayEventSimulator.create_simple_events *)

(* the configuration of the observation being generated *)
Config == observations[obs_index]

(* 192 + (ra - ra_center) * 3600 / self.pixel_scale *)
DetOfSky(sky, center) == DetCenter * PixDen + SkyToPix(sky - center)

(* ra_center + (source_x - 192) * self.pixel_scale / 3600 *)
SkyOfDet(det, center) == center + PixToSky(det - DetCenter * PixDen)

(* the flux alone, the exposure forgotten *)
ExpectedCountsPerSecond(flux) == flux

(* flux * self.exposure_time, the argument of np.random.poisson *)
ExpectedCounts(flux) == flux * exposure_time

(* the energy spectrum without the np.clip *)
SourceEnergyUnclipped(r) ==
    ExponentialDraw(3 * (EnergyDen \div 2), r) + EnergyDen \div 2

(* np.random.exponential(1.5) + 0.5, then np.clip(energies, 0.2, 10.0) *)
SourceEnergy(r) ==
    Clip(ExponentialDraw(3 * (EnergyDen \div 2), r) + EnergyDen \div 2,
         EnergyDen \div 5, 10 * EnergyDen)

(* np.random.uniform(0.2, 10.0) *)
BackgroundEnergy(r) == UniformDraw(EnergyDen \div 5, 10 * EnergyDen, r)

(* np.random.uniform(0, 384) *)
BackgroundPixel(r) == UniformDraw(0, 384 * PixDen, r)

(* np.random.uniform(0, self.exposure_time) *)
ArrivalTime(r) == UniformDraw(0, exposure_time * TimeDen, r)

(* the 0-based position used as the id: the first source becomes background *)
SourceIdZeroBased(i) == i

(* [i + 1] * total_counts, i the 0-based position of the source *)
SourceIdOf(i) == i + 1

(* the seven list.extend calls *)
Extend(arr, x, y, t, e, ra, dec, ids) ==
    [ det_x |-> arr.det_x \o x, det_y |-> arr.det_y \o y,
      time |-> arr.time \o t, energy |-> arr.energy \o e,
      ra |-> arr.ra \o ra, dec |-> arr.dec \o dec,
      source_id |-> arr.source_id \o ids ]

(* one pass of the loop over sources *)
SimulateSource ==
    /\ pc = "sources"
    /\ src_index < Len(Config.sources)
    /\ LET src == Config.sources[src_index + 1]
           det_x == DetOfSky(src[1], Config.ra_center)
           det_y == DetOfSky(src[2], Config.dec_center)
           lam == ExpectedCounts(src[3])
       IN  \E s1 \in GrowTo(stream, rngPos, 1) :
           LET n == PoissonDraw(lam, RawAt(s1, rngPos + 1))
               need == IF n > 0 THEN 1 + 4 * n ELSE 1
           IN  \E s \in GrowTo(s1, rngPos, need) :
             LET p == rngPos + 1
                 source_x == [j \in 1..n |->
                                 NormalDraw(det_x, 2 * PixDen, RawAt(s, p + j))]
                 source_y == [j \in 1..n |->
                                 NormalDraw(det_y, 2 * PixDen, RawAt(s, p + n + j))]
                 times == [j \in 1..n |-> ArrivalTime(RawAt(s, p + 2 * n + j))]
                 energies == [j \in 1..n |-> SourceEnergy(RawAt(s, p + 3 * n + j))]
                 ra_vals == [j \in 1..n |-> SkyOfDet(source_x[j], Config.ra_center)]
                 dec_vals == [j \in 1..n |-> SkyOfDet(source_y[j], Config.dec_center)]
                 ids == [j \in 1..n |-> SourceIdOf(src_index)]
             IN  /\ stream' = s
                 /\ rngPos' = rngPos + need
                 /\ all_arrays' = IF n > 0
                                  THEN Extend(all_arrays, source_x, source_y, times,
                                              energies, ra_vals, dec_vals, ids)
                                  ELSE all_arrays
                 /\ stdout' = IF n > 0
                              THEN Append(stdout, <<"Source", src_index + 1, n>>)
                              ELSE stdout
                 /\ total_counts' = Append(total_counts, n)
                 /\ poisson_lams' = Append(poisson_lams, lam)
    /\ src_index' = src_index + 1
    /\ UNCHANGED << missing, pc, stderr, exit_status, dirs, files, catalog,
                    clock, observations, obs_index, generated_files, simulator,
                    bg_counts, events, fits_log, runs >>

(* self.background_rate * 384 * 384 * self.exposure_time *)
BackgroundExpected == background_rate * 384 * 384 * exposure_time

(* the background, after the last source *)
SimulateBackground ==
    /\ pc = "sources"
    /\ src_index = Len(Config.sources)
    /\ \E s1 \in GrowTo(stream, rngPos, 1) :
       LET n == PoissonDraw(BackgroundExpected, RawAt(s1, rngPos + 1))
           need == IF n > 0 THEN 1 + 4 * n ELSE 1
       IN  \E s \in GrowTo(s1, rngPos, need) :
         LET p == rngPos + 1
             bg_x == [j \in 1..n |-> BackgroundPixel(RawAt(s, p + j))]
             bg_y == [j \in 1..n |-> BackgroundPixel(RawAt(s, p + n + j))]
             bg_times == [j \in 1..n |-> ArrivalTime(RawAt(s, p + 2 * n + j))]
             bg_energies == [j \in 1..n |-> BackgroundEnergy(RawAt(s, p + 3 * n + j))]
             bg_ra == [j \in 1..n |-> SkyOfDet(bg_x[j], Config.ra_center)]
             bg_dec == [j \in 1..n |-> SkyOfDet(bg_y[j], Config.dec_center)]
             ids == [j \in 1..n |-> 0]
         IN  /\ stream' = s
             /\ rngPos' = rngPos + need
             /\ bg_counts' = n
             /\ all_arrays' = IF n > 0
                              THEN Extend(all_arrays, bg_x, bg_y, bg_times,
                                          bg_energies, bg_ra, bg_dec, ids)
                              ELSE all_arrays
             /\ stdout' = IF n > 0
                          THEN Append(stdout, <<"Background", n>>)
                          ELSE stdout
    /\ pc' = "sort"
    /\ UNCHANGED << missing, stderr, exit_status, dirs, files, catalog, clock,
                    observations, obs_index, generated_files, simulator,
                    src_index, total_counts, poisson_lams, events, fits_log,
                    runs >>

(* np.argsort(all_times): the indices of t in non-decreasing order of      *)
(* value.  The order among equal values is deterministic; insertion in     *)
(* index order, as the sort does for short arrays, is modelled.            *)
RECURSIVE ArgSortUpTo(_, _)
ArgSortUpTo(t, n) ==
    IF n = 0 THEN <<>>
    ELSE LET order == ArgSortUpTo(t, n - 1)
         IN  SelectSeq(order, LAMBDA x : t[x] <= t[n]) \o <<n>> \o
             SelectSeq(order, LAMBDA x : t[x] > t[n])

(* a sort that leaves the arrays in generation order *)
ArgSortGenerationOrder(t) == [j \in 1..Len(t) |-> j]

ArgSort(t) == ArgSortUpTo(t, Len(t))

(* array[time_order] *)
Take(arr, order) == [j \in 1..Len(order) |-> arr[order[j]]]

(* a return that forgets to reorder det_x *)
SortedButDetX(arr) ==
    LET time_order == ArgSort(arr.time)
    IN  [ det_x |-> arr.det_x,
          det_y |-> Take(arr.det_y, time_order),
          time |-> Take(arr.time, time_order),
          energy |-> Take(arr.energy, time_order),
          ra |-> Take(arr.ra, time_order),
          dec |-> Take(arr.dec, time_order),
          source_id |-> Take(arr.source_id, time_order) ]

(* the returned dictionary: every array indexed by time_order *)
Sorted(arr) ==
    LET time_order == ArgSort(arr.time)
    IN  [ det_x |-> Take(arr.det_x, time_order),
          det_y |-> Take(arr.det_y, time_order),
          time |-> Take(arr.time, time_order),
          energy |-> Take(arr.energy, time_order),
          ra |-> Take(arr.ra, time_order),
          dec |-> Take(arr.dec, time_order),
          source_id |-> Take(arr.source_id, time_order) ]

(* the end of create_simple_events: sort by time and return *)
SortEvents ==
    /\ pc = "sort"
    /\ events' = WithColumns(Sorted(all_arrays), <<>>, <<>>, <<>>, <<>>)
    /\ pc' = "columns"
    /\ UNCHANGED << missing, stdout, stderr, exit_status, dirs, files, catalog,
                    clock, observations, obs_index, generated_files, simulator,
                    rngPos, stream, src_index, all_arrays, total_counts,
                    poisson_lams, bg_counts, fits_log, runs >>

----------------------------------------------------------------------------
(* XRayEventSimulator.add_realistic_columns *)

(* the channel with astype(int) alone: truncation instead of rounding *)
PiChannelTruncated(e) ==
    LET d == e - energy_offset
    IN  Clip(IF d >= 0 THEN d \div energy_gain ELSE -((-d) \div energy_gain),
             0, PiMax)

(* np.clip(np.round((energy - energy_offset) / energy_gain).astype(int), 0, 4095) *)
PiChannel(e) == Clip(RoundHalfEven(e - energy_offset, energy_gain), 0, PiMax)

(* (time / 2.6).astype(int), time >= 0 *)
FrameOf(t) == t \div FrameTime

AddRealisticColumns ==
    /\ pc = "columns"
    /\ LET n_events == Len(events.time)
       IN  \E s \in GrowTo(stream, rngPos, 2 * n_events) :
             LET pi == [j \in 1..n_events |-> PiChannel(events.energy[j])]
                 grade == [j \in 1..n_events |-> ChoiceDraw(5, RawAt(s, rngPos + j))]
                 status == [j \in 1..n_events |->
                               ChoiceDraw(2, RawAt(s, rngPos + n_events + j))]
                 frame == [j \in 1..n_events |-> FrameOf(events.time[j])]
                 out == WithColumns(events, pi, grade, status, frame)
             IN  /\ stream' = s
                 /\ rngPos' = rngPos + 2 * n_events
                 /\ events' = out
                 /\ runs' = Append(runs, [ sources |-> Config.sources,
                                           ra_center |-> Config.ra_center,
                                           dec_center |-> Config.dec_center,
                                           events |-> out ])
    /\ pc' = "write"
    /\ UNCHANGED << missing, stdout, stderr, exit_status, dirs, files, catalog,
                    clock, observations, obs_index, generated_files, simulator,
                    src_index, all_arrays, total_counts, poisson_lams,
                    bg_counts, fits_log >>

----------------------------------------------------------------------------
(* XRayEventSimulator.write_fits_file *)

(* os.path.join(output_dir, f"{obs_id}_events.fits") *)
FitsName(obs_id) == <<output_dir, obs_id, "_events.fits">>

(* column formats: "I" is a 16-bit and "J" a 32-bit signed integer; "D"    *)
(* and "E" are floats, whose rounding is below the model's resolution      *)
Int16(v) == ((v + 32768) % 65536) - 32768
Int32(v) == v

TableRows(ev) ==
    [ j \in 1..Len(ev.time) |->
        [ TIME |-> ev.time[j], X |-> ev.det_x[j], Y |-> ev.det_y[j],
          RA |-> ev.ra[j], DEC |-> ev.dec[j], ENERGY |-> ev.energy[j],
          PI |-> Int16(ev.pi[j]), GRADE |-> Int16(ev.grade[j]),
          STATUS |-> Int16(ev.status[j]), FRAME |-> Int32(ev.frame[j]),
          SRC_ID |-> Int16(ev.source_id[j]) ] ]

PrimaryHeader(now) ==
    [ TELESCOP |-> "eROSITA-SIM", INSTRUME |-> "TM1", OBS_ID |-> simulator,
      RA_NOM |-> Config.ra_center, DEC_NOM |-> Config.dec_center,
      EXPOSURE |-> exposure_time, TSTART |-> 0, TSTOP |-> exposure_time,
      DATE_OBS |-> now ]

(* the file system after name is written with content c *)
Written(fs, name, c) ==
    [ f \in DOMAIN fs \cup {name} |-> IF f = name THEN c ELSE fs[f] ]

(* hdul.writeto succeeds; back in main, generated_files.append(filename) *)
WriteFitsFile ==
    /\ pc = "write"
    /\ clock' = clock + 1
    /\ files' = Written(files, FitsName(simulator),
                        [ complete |-> TRUE, header |-> PrimaryHeader(clock),
                          rows |-> TableRows(events) ])
    /\ fits_log' = Append(fits_log, FitsName(simulator))
    /\ generated_files' = Append(generated_files, FitsName(simulator))
    /\ stdout' = stdout \o << <<"Writing events", Len(events.time)>>,
                              <<"FITS file written successfully">> >>
    /\ pc' = "summary"
    /\ UNCHANGED << missing, stderr, exit_status, dirs, catalog, observations,
                    obs_index, simulator, rngPos, stream, src_index, all_arrays,
                    total_counts, poisson_lams, bg_counts, events, runs >>

(* a write failure that is caught and skipped: the loop goes on *)
WriteFitsFileFailureSkipped ==
    /\ pc = "write"
    /\ clock' = clock + 1
    /\ \/ UNCHANGED files
       \/ files' = Written(files, FitsName(simulator),
                           [ complete |-> FALSE, header |-> PrimaryHeader(clock),
                             rows |-> <<>> ])
    /\ fits_log' = Append(fits_log, FitsName(simulator))
    /\ stdout' = Append(stdout, <<"Writing events", Len(events.time)>>)
    /\ pc' = "loop"
    /\ UNCHANGED << missing, stderr, exit_status, dirs, catalog, observations,
                    obs_index, generated_files, simulator, rngPos, stream,
                    src_index, all_arrays, total_counts, poisson_lams,
                    bg_counts, events, runs >>

(* hdul.writeto raises: the exception is uncaught.  The file is either not *)
(* created or left incomplete.                                             *)
WriteFitsFileFails ==
    /\ pc = "write"
    /\ clock' = clock + 1
    /\ \/ UNCHANGED files
       \/ files' = Written(files, FitsName(simulator),
                           [ complete |-> FALSE, header |-> PrimaryHeader(clock),
                             rows |-> <<>> ])
    /\ fits_log' = Append(fits_log, FitsName(simulator))
    /\ stdout' = Append(stdout, <<"Writing events", Len(events.time)>>)
    /\ Raise("OSError")
    /\ UNCHANGED << missing, dirs, catalog, observations, obs_index,
                    generated_files, simulator, rngPos, stream, src_index,
                    all_arrays, total_counts, poisson_lams, bg_counts, events,
                    runs >>

----------------------------------------------------------------------------
(* main: summary statistics of the observation, end of the loop body *)

(* np.sum(events["source_id"] > 0) and np.sum(events["source_id"] == 0) *)
CountPositive(q) == Len(SelectSeq(q, LAMBDA x : x > 0))
CountZero(q) == Len(SelectSeq(q, LAMBDA x : x = 0))

RECURSIVE MinOf(_)
MinOf(q) == IF Len(q) = 1 THEN q[1] ELSE Min(q[1], MinOf(Tail(q)))

RECURSIVE MaxOf(_)
MaxOf(q) == IF Len(q) = 1 THEN q[1] ELSE Max(q[1], MaxOf(Tail(q)))

(* f"{100*part/total:.1f}", in tenths of a percent; a division of the      *)
(* numpy integer by zero gives nan                                         *)
Percent(part, total) ==
    IF total = 0 THEN "nan" ELSE RoundHalfEven(1000 * part, total)

(* events["energy"].min() of an empty array raises ValueError, after the   *)
(* lines before it are printed                                             *)
PrintSummary ==
    /\ pc = "summary"
    /\ LET total_events == Len(events.time)
           source_events == CountPositive(events.source_id)
           bg_events == CountZero(events.source_id)
       IN  stdout' = stdout \o
             << <<"Event summary:">>,
                <<"Total events", total_events>>,
                <<"Source events", source_events,
                                   Percent(source_events, total_events)>>,
                <<"Background events", bg_events,
                                       Percent(bg_events, total_events)>> >> \o
             IF total_events = 0 THEN <<>>
             ELSE << <<"Energy range", MinOf(events.energy), MaxOf(events.energy)>> >>
    /\ IF Len(events.time) = 0
       THEN Raise("ValueError")
       ELSE /\ pc' = "loop"
            /\ UNCHANGED << stderr, exit_status >>
    /\ UNCHANGED << missing, dirs, files, catalog, clock, observations,
                    obs_index, generated_files, simulator, rngPos, stream,
                    src_index, all_arrays, total_counts, poisson_lams,
                    bg_counts, events, fits_log, runs >>

----------------------------------------------------------------------------
(* main: the source catalog, after the loop *)

(* f"{v:8.4f}": the decimal with four fractional digits nearest to v, kept  *)
(* as its number of 1e-4 units; den is the unit of v                       *)
Format4(v, den) == RoundHalfEven(v, den \div 10000)

(* a row formatted with one fractional digit, f"{ra:8.1f}" *)
CatalogRowOneDigit(obs_id, i, src) ==
    << obs_id, i + 1,
       1000 * RoundHalfEven(src[1], SkyDen \div 10),
       1000 * RoundHalfEven(src[2], SkyDen \div 10),
       1000 * RoundHalfEven(src[3], FluxDen \div 10) >>

(* f"{obs_id}  {i+1:2d}  {ra:8.4f}  {dec:8.4f}  {flux:8.4f}\n" *)
CatalogRow(obs_id, i, src) ==
    << obs_id, i + 1, Format4(src[1], SkyDen), Format4(src[2], SkyDen),
       Format4(src[3], FluxDen) >>

RECURSIVE CatalogRows(_, _)
CatalogRows(obs, n) ==
    IF n = 0 THEN <<>>
    ELSE CatalogRows(obs, n - 1) \o
         [ i \in 1..Len(obs[n].sources) |->
             CatalogRow(obs[n].obs_id, i - 1, obs[n].sources[i]) ]

CatalogHeader ==
    << <<"# MinieSASS Test Source Catalog">>,
       <<"# Format: OBS_ID  SOURCE_ID  RA_DEG  DEC_DEG  FLUX_CTS_PER_SEC">> >>

WriteCatalog ==
    /\ pc = "loop"
    /\ obs_index = Len(observations)
    /\ catalog' = CatalogHeader \o CatalogRows(observations, Len(observations))
    /\ stdout' = stdout \o
          << <<"=== Generation Complete ===">>,
             <<"Generated FITS files", Len(generated_files)>> >> \o
          [n \in 1..Len(generated_files) |-> <<"file", generated_files[n]>>] \o
          << <<"Source catalog", catalog_dir, "source_catalog.txt">>,
             <<"Files ready for pipeline testing!">> >>
    /\ pc' = "done"
    /\ exit_status' = 0
    /\ UNCHANGED << missing, stderr, dirs, files, clock, observations,
                    obs_index, generated_files, simulator, rngPos, stream,
                    src_index, all_arrays, total_counts, poisson_lams,
                    bg_counts, events, fits_log, runs >>

(* open(catalog_file, "w") or f.write raises: nothing or only a part of    *)
(* the catalog is on disk                                                  *)
WriteCatalogFails ==
    /\ pc = "loop"
    /\ obs_index = Len(observations)
    /\ \/ UNCHANGED catalog
       \/ catalog' = CatalogHeader
    /\ Raise("OSError")
    /\ UNCHANGED << missing, stdout, dirs, files, clock, observations,
                    obs_index, generated_files, simulator, rngPos, stream,
                    src_index, all_arrays, total_counts, poisson_lams,
                    bg_counts, events, fits_log, runs >>

----------------------------------------------------------------------------
(* The script *)

Next ==
    \/ ImportNumpy
    \/ ImportGuarded
    \/ MainStart
    \/ StartObservation
    \/ SimulateSource
    \/ SimulateBackground
    \/ SortEvents
    \/ AddRealisticColumns
    \/ WriteFitsFile
    \/ WriteFitsFileFails
    \/ PrintSummary
    \/ WriteCatalog
    \/ WriteCatalogFails

Spec == Init /\ [][Next]_vars

----------------------------------------------------------------------------
(* add_realistic_columns called on its own: a new simulator is given an    *)
(* event table, time ordered as create_simple_events returns it, whose     *)
(* energies are arbitrary, also outside energy_range.                      *)

MaxColumnEvents == 2

ColumnEnergies ==
    { 0,                                   \* 0 keV, below energy_offset
      energy_offset + energy_gain \div 2,  \* half a channel above the offset
      energy_offset + energy_gain - 1,     \* just below channel 1
      energy_hi,                           \* 10 keV, top of energy_range
      energy_offset + PiMax * energy_gain + energy_gain \div 2,
      25 * EnergyDen }                     \* 25 keV, above the channel range

ColumnInputs ==
    UNION { { [ det_x |-> [j \in 1..n |-> DetCenter * PixDen],
                det_y |-> [j \in 1..n |-> DetCenter * PixDen],
                time |-> [j \in 1..n |-> (j - 1) * FrameTime + 1],
                energy |-> e,
                ra |-> [j \in 1..n |-> create_test_observations[1].ra_center],
                dec |-> [j \in 1..n |-> create_test_observations[1].dec_center],
                source_id |-> [j \in 1..n |-> 0] ] :
              e \in [1..n -> ColumnEnergies] } : n \in 1..MaxColumnEvents }

InitColumns ==
    /\ missing = {}
    /\ pc = "columns"
    /\ stdout = <<>>
    /\ stderr = <<>>
    /\ exit_status = NotExited
    /\ dirs = {}
    /\ files = <<>>
    /\ catalog = NoFile
    /\ clock = 0
    /\ observations = << create_test_observations[1] >>
    /\ obs_index = 1
    /\ generated_files = <<>>
    /\ simulator = create_test_observations[1].obs_id
    /\ rngPos = 0
    /\ stream = <<>>
    /\ src_index = 0
    /\ \E input \in ColumnInputs :
         /\ all_arrays = input
         /\ events = WithColumns(input, <<>>, <<>>, <<>>, <<>>)
    /\ total_counts = <<>>
    /\ poisson_lams = <<>>
    /\ bg_counts = NoCount
    /\ fits_log = <<>>
    /\ runs = <<>>

NextColumns == AddRealisticColumns

SpecColumns == InitColumns /\ [][NextColumns]_vars

----------------------------------------------------------------------------
(* Properties *)

RECURSIVE SumSeq(_)
SumSeq(q) == IF q = <<>> THEN 0 ELSE q[1] + SumSeq(Tail(q))

NonDecreasing(q) == \A j \in 1..(Len(q) - 1) : q[j] <= q[j + 1]

CompleteFiles == { f \in DOMAIN files : files[f].complete }

(* the events dictionary holds what create_simple_events returned *)
EventsReturned == pc \in {"columns", "write", "summary"}

(* C1: the events create_simple_events returns, and the rows of every      *)
(* table written, are in non-decreasing order of arrival time.             *)
C1_TimeOrdered ==
    /\ NonDecreasing(events.time)
    /\ \A f \in CompleteFiles :
         NonDecreasing([j \in 1..Len(files[f].rows) |-> files[f].rows[j].TIME])

(* the sort had to reorder events, and the reordered table was written *)
C1_Witness ==
    /\ pc = "summary"
    /\ Len(all_arrays.time) >= 3
    /\ ~NonDecreasing(all_arrays.time)
    /\ files[FitsName(simulator)].complete
    /\ Len(files[FitsName(simulator)].rows) = Len(all_arrays.time)


(* the lines printed since the banner of the current observation *)
RECURSIVE LastBanner(_)
LastBanner(n) ==
    IF n = 0 THEN 0
    ELSE IF stdout[n][1] = "--- Generating Observation" THEN n
    ELSE LastBanner(n - 1)

ObservationLines == SubSeq(stdout, LastBanner(Len(stdout)) + 1, Len(stdout))

RowsWithId(rows, id) == Len(SelectSeq(rows, LAMBDA r : r.SRC_ID = id))

(* C2: the table written for an observation has one row per drawn event:   *)
(* its row count is the sum of the counts drawn for the sources plus the   *)
(* drawn background count, the rows with source id 0 are as many as the    *)
(* background count, the rows with source id i as many as the count drawn  *)
(* for the i-th source, and these totals are the counts printed.           *)
C2_RowsMatchDraws ==
    pc = "summary" =>
        LET rows == files[FitsName(simulator)].rows
        IN  /\ Len(total_counts) = Len(Config.sources)
            /\ Len(rows) = SumSeq(total_counts) + bg_counts
            /\ RowsWithId(rows, 0) = bg_counts
            /\ \A i \in 1..Len(total_counts) :
                 RowsWithId(rows, i) = total_counts[i]
            /\ \A n \in 1..Len(ObservationLines) :
                 LET line == ObservationLines[n]
                 IN  /\ line[1] = "Source" => RowsWithId(rows, line[2]) = line[3]
                     /\ line[1] = "Background" => RowsWithId(rows, 0) = line[2]
            /\ \A i \in 1..Len(total_counts) :
                 total_counts[i] > 0 =>
                     \E n \in 1..Len(ObservationLines) :
                         ObservationLines[n] = <<"Source", i, total_counts[i]>>

(* a table with background rows, rows of a source, and a source without rows *)
C2_Witness ==
    /\ pc = "summary"
    /\ bg_counts > 0
    /\ \E i \in 1..Len(total_counts) : total_counts[i] > 1
    /\ \E i \in 1..Len(total_counts) : total_counts[i] = 0
    /\ Len(files[FitsName(simulator)].rows) >= 3

C4_EnergyAndBackgroundInRange ==
    \A arr \in {all_arrays, events} :
        \A j \in 1..Len(arr.energy) :
            /\ arr.energy[j] >= EnergyDen \div 5
            /\ arr.energy[j] <= 10 * EnergyDen
            /\ arr.source_id[j] = 0 =>
                 /\ arr.det_x[j] >= 0 /\ arr.det_x[j] < detector_size * PixDen
                 /\ arr.det_y[j] >= 0 /\ arr.det_y[j] < detector_size * PixDen

(* a source event whose energy the clip brought down to 10 keV, next to a  *)
(* background event                                                        *)
C4_Witness ==
    /\ pc = "columns"
    /\ \E j \in 1..Len(events.energy) :
         events.source_id[j] > 0 /\ events.energy[j] = 10 * EnergyDen
    /\ \E j \in 1..Len(events.energy) :
         events.source_id[j] = 0 /\ events.det_x[j] > 0


(* the rows of seven parallel arrays, as tuples *)
Tuples(arr) ==
    [ j \in 1..Len(arr.time) |->
        << arr.det_x[j], arr.det_y[j], arr.time[j], arr.energy[j],
           arr.ra[j], arr.dec[j], arr.source_id[j] >> ]

Occurrences(q, x) == Cardinality({ j \in 1..Len(q) : q[j] = x })

Range(q) == { q[j] : j \in 1..Len(q) }

(* C5: after a complete run the catalog holds, after its two header lines, *)
(* one row per configured source, observation by observation and source by *)
(* source, with the obs_id, the 1-based source index and a RA, DEC and     *)
(* flux that read back as exactly the configured values.                   *)
C5_CatalogListsEverySource ==
    pc = "done" =>
        LET rows == SubSeq(catalog, Len(CatalogHeader) + 1, Len(catalog))
            Before(n) == SumSeq([m \in 1..(n - 1) |-> Len(observations[m].sources)])
        IN  /\ SubSeq(catalog, 1, Len(CatalogHeader)) = CatalogHeader
            /\ Len(rows) = SumSeq([m \in 1..Len(observations) |->
                                      Len(observations[m].sources)])
            /\ \A n \in 1..Len(observations) :
                 \A i \in 1..Len(observations[n].sources) :
                   LET row == rows[Before(n) + i]
                       src == observations[n].sources[i]
                   IN  /\ row[1] = observations[n].obs_id
                       /\ row[2] = i
                       /\ row[3] * (SkyDen \div 10000) = src[1]
                       /\ row[4] * (SkyDen \div 10000) = src[2]
                       /\ row[5] * (FluxDen \div 10000) = src[3]

(* a complete run of two observations in which a source drew no event *)
C5_Witness ==
    /\ pc = "done"
    /\ Len(observations) >= 2
    /\ Len(catalog) > Len(CatalogHeader) + 2
    /\ \E i \in 1..Len(total_counts) : total_counts[i] = 0

(* C7: two generations with the same source list and field center yield    *)
(* the same event table, whatever was generated before them in the run.    *)
C7_SameInputsSameEvents ==
    \A a \in 1..Len(runs) : \A b \in 1..Len(runs) :
        (/\ runs[a].sources = runs[b].sources
         /\ runs[a].ra_center = runs[b].ra_center
         /\ runs[a].dec_center = runs[b].dec_center)
            => runs[a].events = runs[b].events

(* the same field generated twice in one run, with events of a source and  *)
(* of the background                                                       *)
C7_Witness ==
    /\ Len(runs) >= 2
    /\ runs[1].sources = runs[2].sources
    /\ runs[1].ra_center = runs[2].ra_center
    /\ Len(runs[2].events.time) >= 2
    /\ \E j \in 1..Len(runs[2].events.time) : runs[2].events.source_id[j] > 0
    /\ \E j \in 1..Len(runs[2].events.time) : runs[2].events.source_id[j] = 0
    /\ \E j \in 1..Len(stream) : stream[j] # stream[1]

(* C8: the count of each source is one Poisson draw whose mean is the      *)
(* source's flux times the exposure of 1000 s, and the returned events     *)
(* hold exactly that many events of the source.                            *)
C8_CountIsPoissonOfFluxTimesExposure ==
    /\ pc \in {"sources", "sort", "columns", "write", "summary"} =>
         /\ Len(poisson_lams) = src_index
         /\ Len(total_counts) = src_index
         /\ \A i \in 1..src_index :
              /\ poisson_lams[i] = Config.sources[i][3] * 1000
              /\ Occurrences(all_arrays.source_id, i) = total_counts[i]
    /\ EventsReturned =>
         \A i \in 1..Len(total_counts) :
             Occurrences(events.source_id, i) = total_counts[i]

(* every source of the observation drew a different, positive count *)
C8_Witness ==
    /\ pc = "columns"
    /\ Len(total_counts) >= 2
    /\ total_counts[1] > 0
    /\ total_counts[2] > 0
    /\ total_counts[2] # total_counts[1]
    /\ poisson_lams[1] # poisson_lams[2]

(* C10: the sort keeps the attributes of an event together: the seven      *)
(* returned arrays have one length, the returned rows are the generated    *)
(* rows in another order, and in every returned row ra and dec are the     *)
(* sky position of that row's det_x and det_y.                             *)
C10_RowsKeptTogether ==
    EventsReturned =>
        /\ \A name \in ArrayNames : Len(events[name]) = Len(events.time)
        /\ Len(events.time) = Len(all_arrays.time)
        /\ \A row \in Range(Tuples(all_arrays)) \cup Range(Tuples(events)) :
             Occurrences(Tuples(events), row) = Occurrences(Tuples(all_arrays), row)
        /\ \A j \in 1..Len(events.time) :
             /\ events.ra[j] = Config.ra_center
                    + PixToSky(events.det_x[j] - DetCenter * PixDen)
             /\ events.dec[j] = Config.dec_center
                    + PixToSky(events.det_y[j] - DetCenter * PixDen)

(* the sort moved events with different detector positions *)
C10_Witness ==
    /\ pc = "columns"
    /\ Len(events.time) >= 3
    /\ Tuples(events) # Tuples(all_arrays)
    /\ \E j \in 1..Len(events.time) : events.det_x[j] # all_arrays.det_x[j]


(* the script is past its imports *)
ImportsOver == pc \notin {"import_numpy", "import_try"}

(* nothing of main has happened *)
NoWorkDone ==
    /\ dirs = {}
    /\ files = <<>>
    /\ catalog = NoFile
    /\ simulator = ""
    /\ obs_index = 0
    /\ fits_log = <<>>

MissingPackagesMessage ==
    << <<"Missing required packages">>,
       <<"Install with: pip install astropy matplotlib">> >>

(* C6 as stated: whichever of numpy, astropy and matplotlib is missing,    *)
(* the script ends at start-up with the "Missing required packages"        *)
(* message and the install hint, a non-zero exit status and no work done.  *)
C6_AnyMissingPackageIsDiagnosed ==
    (missing # {} /\ ImportsOver) =>
        /\ pc = "exited"
        /\ stdout = MissingPackagesMessage
        /\ exit_status > 0
        /\ NoWorkDone

(* C6 amended: a missing package ends the script at start-up with exit     *)
(* status 1 and no work done.  With numpy installed and astropy or         *)
(* matplotlib missing it prints the "Missing required packages" message    *)
(* and the install hint; with numpy missing the ImportError is uncaught,   *)
(* the interpreter reports it and the message is not printed.              *)
C6_MissingPackageStopsBeforeWork ==
    (missing # {} /\ ImportsOver) =>
        /\ exit_status = 1
        /\ NoWorkDone
        /\ IF "numpy" \in missing
           THEN /\ pc = "crashed"
                /\ stdout = <<>>
                /\ stderr = << <<"Traceback", "ModuleNotFoundError", "numpy">> >>
           ELSE /\ pc = "exited"
                /\ stdout = MissingPackagesMessage
                /\ stderr = <<>>

(* astropy is missing, numpy is not, and the script has exited *)
C6_Witness ==
    /\ "astropy" \in missing
    /\ "numpy" \notin missing
    /\ pc = "exited"
    /\ exit_status = 1

(* the observation whose step raised, when the run failed inside the loop *)
FailedInObservation ==
    /\ pc = "failed"
    /\ obs_index >= 1
    /\ \/ stderr[Len(stderr)] = <<"Traceback", "ValueError">>
       \/ FitsName(simulator) \notin CompleteFiles

(* C9: the tables are written one per observation, in configuration order  *)
(* and each by a single call; the catalog exists only once every table is  *)
(* written; a failure ends the run: the tables of the earlier observations *)
(* are on disk, no table of a later observation and no catalog exists, and *)
(* no step follows.                                                        *)
C9_FixedOrderNoRecovery ==
    /\ Len(fits_log) <= Len(observations)
    /\ \A n \in 1..Len(fits_log) : fits_log[n] = FitsName(observations[n].obs_id)
    /\ DOMAIN files \subseteq Range(fits_log)
    /\ catalog # NoFile =>
         /\ Len(fits_log) = Len(observations)
         /\ \A n \in 1..Len(observations) :
              FitsName(observations[n].obs_id) \in CompleteFiles
    /\ pc = "failed" =>
         /\ ~ENABLED Next
         /\ \A n \in 1..Len(observations) :
              n > obs_index => FitsName(observations[n].obs_id) \notin DOMAIN files
    /\ FailedInObservation =>
         /\ Len(fits_log) = obs_index
         /\ catalog = NoFile
         /\ \A n \in 1..(obs_index - 1) :
              FitsName(observations[n].obs_id) \in CompleteFiles

(* the write of the second observation failed half way: the first table is *)
(* on disk, the second is incomplete                                       *)
C9_Witness ==
    /\ FailedInObservation
    /\ obs_index = 2
    /\ FitsName(observations[1].obs_id) \in CompleteFiles
    /\ FitsName(observations[2].obs_id) \in DOMAIN files
    /\ Len(files[FitsName(observations[1].obs_id)].rows) > 0

====
